---- MODULE Spec2Model ----
(***************************************************************************)
(* check_incremental of DumbSat_Incremental_aarnett2.py: the exhaustive    *)
(* satisfiability check of a CNF formula by a ripple-carry enumeration of  *)
(* the assignments of its variables.                                       *)
(***************************************************************************)
EXTENDS Integers, Sequences, FiniteSets, TLC

VARIABLES Wff, Nvars, Assignment, i, pc, retval, tested, advances

vars == <<Wff, Nvars, Assignment, i, pc, retval, tested, advances>>

(***************************************************************************)
(* The state of one call: the parameters Wff and Nvars, the list           *)
(* Assignment, the loop index i and the position pc of the call, the       *)
(* value returned, and two records of the run: the candidates tested so    *)
(* far and the number of increments done.                                  *)
(***************************************************************************)
TypeOK ==
    /\ Nvars \in Nat
    /\ Assignment \in [0..Nvars -> {0, 1}]
    /\ i \in 0..(2 ^ Nvars)
    /\ pc \in {"FOR", "TESTING", "ADVANCING", "SATISFIED", "EXHAUSTED", "RAISED"}
    /\ retval = <<>> \/ (retval[1] \in BOOLEAN /\ retval[2] = Assignment)
    /\ Len(tested) <= 2 ^ Nvars
    /\ advances \in 0..(2 ^ Nvars)

(* Bounds of the model: the variable count, and the size of a formula      *)
(* (its clauses plus its literal occurrences).                             *)
MaxVars == 3
MaxSize == 4

(***************************************************************************)
(* The inputs.  A literal is drawn from -(n+1)..(n+1): the well-formed     *)
(* literals of n variables, the literal 0 and the two literals whose       *)
(* variable n+1 is out of range.                                           *)
(***************************************************************************)
Lits(n) == (-(n + 1))..(n + 1)

RECURSIVE SumSeq(_)
SumSeq(s) == IF s = <<>> THEN 0 ELSE Head(s) + SumSeq(Tail(s))

Profiles(k, m) == {p \in [1..k -> 0..m] : SumSeq(p) <= m}

RECURSIVE FormulasOfLens(_, _)
FormulasOfLens(lens, n) ==
    IF lens = <<>> THEN {<<>>}
    ELSE {<<c>> \o r : c \in [1..Head(lens) -> Lits(n)],
                       r \in FormulasOfLens(Tail(lens), n)}

Formulas(n) ==
    UNION {UNION {FormulasOfLens(p, n) : p \in Profiles(k, MaxSize - k)}
           : k \in 0..MaxSize}

(* The two example formulas of the script (wff, assigned twice), both     *)
(* over Num_Vars variables.                                                *)
Num_Vars == 3
wff1 == <<<<1, -2, -2>>, <<2, 3, 3>>, <<-1, -3, -3>>, <<-1, -2, 3>>, <<1, 2, -3>>>>
wff2 == << <<-1, -2, -3>>, <<-1, -2, 3>>, <<-1, 2, -3>>, <<-1, 2, 3>>,
                   <<1, -2, -3>>, <<1, -2, 3>>, <<1, 2, -3>>, <<1, 2, 3>> >>

(***************************************************************************)
(* Assignment = [0] * (Nvars + 1): a list indexed 0..Nvars, all 0.         *)
(***************************************************************************)
InitAssignmentShort(n) == [j \in 0..(n - 1) |-> 0]

InitAssignment(n) == [j \in 0..n |-> 0]

(***************************************************************************)
(* The inner loop of is_satisfiable over one clause, from literal k on:    *)
(* "True" as soon as a literal is true, "False" when none is, and          *)
(* "IndexError" when a literal indexes the list out of its range.          *)
(***************************************************************************)
RECURSIVE ClauseEvalSameSign(_, _, _)
ClauseEvalSameSign(clause, k, A) ==
    IF k > Len(clause) THEN "False"
    ELSE LET literal == clause[k] IN
         IF literal > 0
         THEN IF literal \notin DOMAIN A THEN "IndexError"
              ELSE IF A[literal] = 1 THEN "True"
              ELSE ClauseEvalSameSign(clause, k + 1, A)
         ELSE IF literal < 0
         THEN IF (-literal) \notin DOMAIN A THEN "IndexError"
              ELSE IF A[-literal] = 1 THEN "True"
              ELSE ClauseEvalSameSign(clause, k + 1, A)
         ELSE ClauseEvalSameSign(clause, k + 1, A)

ClauseEvalFirstOnly(clause, k, A) ==
    IF k > Len(clause) THEN "False"
    ELSE LET literal == clause[k] IN
         IF literal > 0
         THEN IF literal \notin DOMAIN A THEN "IndexError"
              ELSE IF A[literal] = 1 THEN "True" ELSE "False"
         ELSE IF literal < 0
         THEN IF (-literal) \notin DOMAIN A THEN "IndexError"
              ELSE IF A[-literal] = 0 THEN "True" ELSE "False"
         ELSE "False"

RECURSIVE ClauseEvalInitTrue(_, _, _)
ClauseEvalInitTrue(clause, k, A) ==
    IF k > Len(clause) THEN "True"
    ELSE LET literal == clause[k] IN
         IF literal > 0
         THEN IF literal \notin DOMAIN A THEN "IndexError"
              ELSE IF A[literal] = 1 THEN "True"
              ELSE ClauseEvalInitTrue(clause, k + 1, A)
         ELSE IF literal < 0
         THEN IF (-literal) \notin DOMAIN A THEN "IndexError"
              ELSE IF A[-literal] = 0 THEN "True"
              ELSE ClauseEvalInitTrue(clause, k + 1, A)
         ELSE ClauseEvalInitTrue(clause, k + 1, A)

RECURSIVE ClauseEval(_, _, _)
ClauseEval(clause, k, A) ==
    IF k > Len(clause) THEN "False"
    ELSE LET literal == clause[k] IN
         IF literal > 0
         THEN IF literal \notin DOMAIN A THEN "IndexError"
              ELSE IF A[literal] = 1 THEN "True"
              ELSE ClauseEval(clause, k + 1, A)
         ELSE IF literal < 0
         THEN IF (-literal) \notin DOMAIN A THEN "IndexError"
              ELSE IF A[-literal] = 0 THEN "True"
              ELSE ClauseEval(clause, k + 1, A)
         ELSE ClauseEval(clause, k + 1, A)

(***************************************************************************)
(* is_satisfiable from clause c on: "False" at the first clause that is    *)
(* not satisfied, "True" when every clause is.                             *)
(***************************************************************************)
RECURSIVE is_satisfiable(_, _, _)
is_satisfiable(W, c, A) ==
    IF c > Len(W) THEN "True"
    ELSE LET r == ClauseEval(W[c], 1, A) IN
         IF r = "True" THEN is_satisfiable(W, c + 1, A) ELSE r

(* range(2 ** Nvars): the number of iterations of the outer loop.          *)
NumCandidatesTimes(n) == 2 * n

NumCandidatesPlusOne(n) == 2 ^ n + 1

NumCandidates(n) == 2 ^ n

(* Assignment[j] ^= 1 *)
FlipBitOr(b) == 1

FlipBit(b) == (b + 1) % 2

(***************************************************************************)
(* for j in range(1, Nvars + 1): flip bit j, stop when it became 1.        *)
(* The result is <<"ok", the new list>>, or "IndexError" with the list as  *)
(* it was when j is out of the list's range.                               *)
(***************************************************************************)
RECURSIVE IncrementMSB(_, _, _)
IncrementMSB(A, j, n) ==
    IF j > n THEN <<"ok", A>>
    ELSE IF (n + 1 - j) \notin DOMAIN A THEN <<"IndexError", A>>
    ELSE LET B == [A EXCEPT ![n + 1 - j] = FlipBit(A[n + 1 - j])] IN
         IF B[n + 1 - j] = 1 THEN <<"ok", B>> ELSE IncrementMSB(B, j + 1, n)

RECURSIVE Increment(_, _, _)
Increment(A, j, n) ==
    IF j > n THEN <<"ok", A>>
    ELSE IF j \notin DOMAIN A THEN <<"IndexError", A>>
    ELSE LET B == [A EXCEPT ![j] = FlipBit(A[j])] IN
         IF B[j] = 1 THEN <<"ok", B>> ELSE Increment(B, j + 1, n)

(***************************************************************************)
(* The state after Assignment is created, before the outer loop starts.    *)
(* i is the next value range(2 ** Nvars) yields; tested and advances       *)
(* record the candidates tested and the number of increments done.         *)
(***************************************************************************)
Init ==
    /\ \/ \E n \in 0..MaxVars : \E W \in Formulas(n) : Nvars = n /\ Wff = W
       \/ Nvars = Num_Vars /\ Wff \in {wff1, wff2}
    /\ Assignment = InitAssignment(Nvars)
    /\ i = 0
    /\ pc = "FOR"
    /\ retval = <<>>
    /\ tested = <<>>
    /\ advances = 0

(* for i in range(2 ** Nvars): the next iteration starts.                  *)
ForNext ==
    /\ pc = "FOR"
    /\ i < NumCandidates(Nvars)
    /\ i' = i + 1
    /\ pc' = "TESTING"
    /\ UNCHANGED <<Wff, Nvars, Assignment, retval, tested, advances>>

(* if is_satisfiable(Assignment): return True, Assignment                  *)
Test ==
    /\ pc = "TESTING"
    /\ tested' = Append(tested, Assignment)
    /\ LET r == is_satisfiable(Wff, 1, Assignment) IN
         /\ pc' = IF r = "True" THEN "SATISFIED"
                  ELSE IF r = "False" THEN "ADVANCING" ELSE "RAISED"
         /\ retval' = IF r = "True" THEN <<TRUE, Assignment>> ELSE retval
    /\ UNCHANGED <<Wff, Nvars, Assignment, i, advances>>

(* The increment of the assignment, at every failed test.                  *)
AdvanceSkipLast ==
    /\ pc = "ADVANCING"
    /\ LET B == IF i < NumCandidates(Nvars)
                THEN Increment(Assignment, 1, Nvars) ELSE <<"ok", Assignment>> IN
         IF B[1] = "IndexError"
         THEN /\ pc' = "RAISED"
              /\ UNCHANGED <<Assignment, advances>>
         ELSE /\ pc' = "FOR"
              /\ Assignment' = B[2]
              /\ advances' = IF i < NumCandidates(Nvars)
                             THEN advances + 1 ELSE advances
    /\ UNCHANGED <<Wff, Nvars, i, retval, tested>>

Advance ==
    /\ pc = "ADVANCING"
    /\ LET B == Increment(Assignment, 1, Nvars) IN
         IF B[1] = "IndexError"
         THEN /\ pc' = "RAISED"
              /\ UNCHANGED <<Assignment, advances>>
         ELSE /\ pc' = "FOR"
              /\ Assignment' = B[2]
              /\ advances' = advances + 1
    /\ UNCHANGED <<Wff, Nvars, i, retval, tested>>

(* return False, Assignment: the loop ran out.                             *)
ReturnFalse ==
    /\ pc = "FOR"
    /\ i >= NumCandidates(Nvars)
    /\ pc' = "EXHAUSTED"
    /\ retval' = <<FALSE, Assignment>>
    /\ UNCHANGED <<Wff, Nvars, Assignment, i, tested, advances>>

Next == ForNext \/ Test \/ Advance \/ ReturnFalse

Spec == Init /\ [][Next]_vars

(* The call runs in one thread with no suspension point: it keeps          *)
(* stepping as long as a step is possible.                                 *)
LiveSpec == Init /\ [][Next]_vars /\ WF_vars(Next)

(***************************************************************************)
(* The vocabulary of the properties: a reference semantics of CNF that     *)
(* shares nothing with is_satisfiable, and the binary-counter order.       *)
(***************************************************************************)
Abs(x) == IF x < 0 THEN -x ELSE x

WellFormed(W, n) ==
    \A c \in 1..Len(W) : \A k \in 1..Len(W[c]) :
        W[c][k] # 0 /\ Abs(W[c][k]) <= n

HasEmptyClause(W) == \E c \in 1..Len(W) : W[c] = <<>>

Satisfies(W, A) ==
    \A c \in 1..Len(W) : \E k \in 1..Len(W[c]) :
        \/ W[c][k] > 0 /\ A[W[c][k]] = 1
        \/ W[c][k] < 0 /\ A[-W[c][k]] = 0

Assignments(n) == {A \in [0..n -> {0, 1}] : A[0] = 0}

Satisfiable(W, n) == \E A \in Assignments(n) : Satisfies(W, A)

(* The assignment whose variable j is bit j-1 of k.                        *)
Candidate(k, n) == [j \in 0..n |-> IF j = 0 THEN 0 ELSE (k \div (2 ^ (j - 1))) % 2]

Asg3(a, b, c) == [j \in 0..3 |-> <<0, a, b, c>>[j + 1]]

Last(s) == s[Len(s)]

Returned == retval # <<>>

Terminal == pc \in {"SATISFIED", "EXHAUSTED"}

(* C1: when the call returns (True, A) for a well-formed formula, A        *)
(* satisfies every clause under the reference semantics.                   *)
WitnessValidity ==
    (WellFormed(Wff, Nvars) /\ Returned /\ retval[1] = TRUE)
        => Satisfies(Wff, retval[2])

WitnessValidityReached ==
    /\ WellFormed(Wff, Nvars)
    /\ Returned /\ retval[1] = TRUE
    /\ Nvars = 2 /\ Len(Wff) = 2 /\ Len(tested) = 4

(* C2: when the call returns (False, _) for a well-formed formula, none    *)
(* of the 2^N assignments satisfies the formula.                           *)
Exhaustiveness ==
    (WellFormed(Wff, Nvars) /\ Returned /\ retval[1] = FALSE)
        => ~Satisfiable(Wff, Nvars)

ExhaustivenessReached ==
    /\ Wff = wff2 /\ Nvars = Num_Vars
    /\ Returned /\ retval[1] = FALSE

(* C3: for a well-formed formula the call eventually reaches SATISFIED or  *)
(* EXHAUSTED and has returned a verdict.                                   *)
Totality ==
    WellFormed(Wff, Nvars) => <>(Terminal /\ Returned /\ retval[1] \in BOOLEAN)

TotalityReached ==
    /\ WellFormed(Wff, Nvars) /\ Terminal /\ Returned
    /\ Nvars = 0 /\ Wff = <<>>

(* C4: the k-th candidate tested has variable j true exactly when bit j-1  *)
(* of k-1 is 1: all-false first, variable 1 toggling fastest; for N = 3    *)
(* the first four are FFF, TFF, FTF, TTF.                                  *)
EnumerationOrder ==
    /\ \A k \in 1..Len(tested) : tested[k] = Candidate(k - 1, Nvars)
    /\ pc = "TESTING" => Assignment = Candidate(Len(tested), Nvars)
    /\ (Nvars = 3 /\ Len(tested) >= 4) =>
          SubSeq(tested, 1, 4) =
             <<Asg3(0, 0, 0), Asg3(1, 0, 0), Asg3(0, 1, 0), Asg3(1, 1, 0)>>

EnumerationOrderReached == Nvars = 3 /\ Len(tested) = 5 /\ pc = "ADVANCING"

(* C5: no candidate is ever tested twice, and a call that returns False    *)
(* has tested exactly 2^N candidates, every assignment among them.         *)
CandidateCount ==
    /\ \A a, b \in 1..Len(tested) : a # b => tested[a] # tested[b]
    /\ (Returned /\ retval[1] = FALSE) =>
          /\ Len(tested) = 2 ^ Nvars
          /\ \A A \in Assignments(Nvars) : \E k \in 1..Len(tested) : tested[k] = A

CandidateCountReached ==
    /\ Wff = wff1 /\ Nvars = Num_Vars
    /\ pc = "EXHAUSTED" /\ Len(tested) = 8

(* C6: a call that ends SATISFIED on a well-formed formula returns the     *)
(* candidate it tested last, unchanged; that candidate satisfies the       *)
(* formula, no candidate tested before it does, the candidates were tested *)
(* in enumeration order, and nothing happens after the satisfying test; a  *)
(* call on a satisfiable formula never ends EXHAUSTED.                     *)
ShortCircuit ==
    /\ (pc = "EXHAUSTED" /\ WellFormed(Wff, Nvars)) => ~Satisfiable(Wff, Nvars)
    /\ (pc = "SATISFIED" /\ WellFormed(Wff, Nvars)) =>
        /\ retval = <<TRUE, Last(tested)>>
        /\ Assignment = Last(tested)
        /\ Satisfies(Wff, Last(tested))
        /\ \A k \in 1..Len(tested) :
              /\ tested[k] = Candidate(k - 1, Nvars)
              /\ k < Len(tested) => ~Satisfies(Wff, tested[k])
        /\ advances = Len(tested) - 1
        /\ ~ENABLED Next

ShortCircuitReached ==
    /\ pc = "SATISFIED" /\ WellFormed(Wff, Nvars)
    /\ Len(tested) = 3 /\ Nvars = 2

(* C7: a formula with an empty clause never ends SATISFIED and any verdict *)
(* returned for it is False; when it is well-formed, is_satisfiable        *)
(* reports it unsatisfied under every candidate.                           *)
EmptyClause ==
    HasEmptyClause(Wff) =>
        /\ pc # "SATISFIED"
        /\ Returned => retval[1] = FALSE
        /\ WellFormed(Wff, Nvars) =>
              \A A \in Assignments(Nvars) : is_satisfiable(Wff, 1, A) = "False"

EmptyClauseReached ==
    /\ HasEmptyClause(Wff) /\ WellFormed(Wff, Nvars)
    /\ \E c \in 1..Len(Wff) : Wff[c] # <<>>
    /\ Nvars >= 1 /\ pc = "EXHAUSTED"

(* C8: a formula with a literal 0 or a literal beyond N is rejected before *)
(* any candidate is tested, and no verdict is returned for it.             *)
MalformedRejected ==
    ~WellFormed(Wff, Nvars) => (tested = <<>> /\ ~Returned)

(* C9 as claimed: with N >= 1, the assignment returned with False (here    *)
(* for a well-formed formula) is the all-true assignment, the last         *)
(* candidate tested.                                                       *)
FailureReturnsAllTrue ==
    (pc = "EXHAUSTED" /\ Nvars >= 1 /\ WellFormed(Wff, Nvars)) =>
        /\ \A j \in 1..Nvars : retval[2][j] = 1
        /\ retval[2] = Last(tested)

(* C9 as amended: with N >= 1, the assignment returned with False is the   *)
(* all-false assignment the counter wraps around to; the last candidate    *)
(* tested was the all-true one.                                            *)
FailureReturnsAllFalse ==
    (pc = "EXHAUSTED" /\ Nvars >= 1) =>
        /\ retval = <<FALSE, Assignment>>
        /\ \A j \in 1..Nvars : retval[2][j] = 0
        /\ \A j \in 1..Nvars : Last(tested)[j] = 1

FailureReturnReached == pc = "EXHAUSTED" /\ Nvars = 2 /\ retval[2] = Candidate(0, 2)

(* C10 as claimed: an advance is taken only while untested candidates      *)
(* remain, and a call that ends EXHAUSTED has done 2^N - 1 advances (here  *)
(* for a well-formed formula over at least one variable).                  *)
AdvanceOnlyWhileCandidatesRemain ==
    (WellFormed(Wff, Nvars) /\ Nvars >= 1) =>
        /\ pc = "ADVANCING" => Len(tested) < 2 ^ Nvars
        /\ pc = "EXHAUSTED" => advances = 2 ^ Nvars - 1

(* C10 as amended: an advance is taken after every failed test and only    *)
(* then, the 2^N-th included; an advance with candidates remaining is      *)
(* followed by the test of the new candidate, the advance after the 2^N-th *)
(* failed test by EXHAUSTED; a call that ends EXHAUSTED has done 2^N       *)
(* advances.                                                               *)
StepOrderInv ==
    /\ pc = "ADVANCING" =>
          /\ is_satisfiable(Wff, 1, Assignment) = "False"
          /\ Assignment = Last(tested)
          /\ advances = Len(tested) - 1
    /\ pc = "FOR" => advances = Len(tested) /\ i = Len(tested)
    /\ pc = "TESTING" => advances = Len(tested) /\ i = Len(tested) + 1
    /\ pc = "EXHAUSTED" => advances = 2 ^ Nvars /\ Len(tested) = 2 ^ Nvars

StepOrderStep ==
    /\ pc = "ADVANCING" => (pc' = "FOR" /\ advances' = advances + 1)
    /\ pc # "ADVANCING" => advances' = advances
    /\ (pc = "FOR" /\ Len(tested) < 2 ^ Nvars) =>
          (pc' = "TESTING" /\ Assignment' = Assignment)
    /\ (pc = "FOR" /\ Len(tested) >= 2 ^ Nvars) => pc' = "EXHAUSTED"
    /\ pc = "TESTING" => pc' \in {"SATISFIED", "ADVANCING", "RAISED"}

AdvanceAfterEveryFailedTest == []StepOrderInv /\ [][StepOrderStep]_vars

AdvanceAfterLastTestReached ==
    pc = "ADVANCING" /\ Nvars = 2 /\ Len(tested) = 4 /\ advances = 3

====
